---- MODULE Spec2Model ----
(***************************************************************************)
(* The dual-representation sub-window of kivy/uix/subwindow.py: the facade *)
(* SubWindow, the overlay SubWindowPopup, the native adapter               *)
(* SubWindowNative, the shared lifecycle protocol SubWindowBase, and the   *)
(* constructor of the earlier revision kivy/core/subwindow/__init__.py.    *)
(*                                                                         *)
(* One facade object is modelled, together with the one overlay and the    *)
(* one native adapter it may create.  Every public method is one action.   *)
(* `call` records the last call: its name, receiver, arguments, the events *)
(* it dispatched and hooks it invoked (log), and the exception it raised.  *)
(*                                                                         *)
(* Four callers are followed, each from the same initial states: Spec,     *)
(* the lifecycle protocol; SpecAttach, overlays attached to the facade and *)
(* detached from it; SpecNative, the native adapter used on its own;       *)
(* SpecFrames, opening and closing under a fair event loop.                *)
(***************************************************************************)
EXTENDS Integers, Sequences, FiniteSets, TLC

\* ----------------------------------------------------------------- bounds
\* Number of SubWindowPopupButton children of the overlay's button row.
NumButtons == 2

VARIABLES
    UseNativeWindow,  \* SubWindow.UseNativeWindow, fixed by the platform
    facade,           \* the SubWindow widget
    popup,            \* the SubWindowPopup the facade created (exists = FALSE before)
    native,           \* the SubWindowNative the facade created (exists = FALSE before)
    other,            \* a SubWindowPopup the caller built itself
    clock,            \* callbacks passed to Clock.schedule_once, not yet run
    call              \* the last call and its outcome

vars == <<UseNativeWindow, facade, popup, native, other, clock, call>>

\* ----------------------------------------------------------------- values
None == "None"

\* size_hint (None, None), (1, 1) and the docstring's (.8, .8)
SizeHintNone == <<"None", "None">>
SizeHintFull == <<"1", "1">>
SizeHintPart == <<".8", ".8">>

\* pos_hint dictionaries: {} and one non-empty policy
PosHintEmpty == "{}"
PosHintCenter == "{'center_x': .5}"

Origin == <<0, 0>>
NonePos == <<>>

\* The geometry a facade may be constructed with.
Geometries ==
    { [pos |-> <<50, 50>>, pos_hint |-> PosHintEmpty, size_hint |-> SizeHintNone],
      [pos |-> Origin, pos_hint |-> PosHintCenter, size_hint |-> SizeHintPart] }

\* The geometry, auto_open and allow_maximize a facade is constructed with:
\* four of the eight combinations, in which every pair of values occurs.
Constructions ==
    { c \in [g : Geometries, auto_open : BOOLEAN, allow_maximize : BOOLEAN] :
        (c.g.pos = Origin) = (c.auto_open = c.allow_maximize) }

\* kv_file values: none given, one the resource search resolves, one it does not.
KvFound == "found.kv"
KvMissing == "missing.kv"
KvFiles == {"", KvFound, KvMissing}

Buttons == 1..NumButtons

\* What one bound on_request_close handler does: what it writes to
\* event.mayClose ("keep" leaves it) and what it returns.
Handler(sets, ret) == [sets |-> sets, ret |-> ret]

\* The handler lists a caller may have bound, in the order dispatch runs them:
\* none; one that vetoes; one that vetoes and returns True; one that only
\* returns True; a veto behind a handler that stops the dispatch; a veto a
\* later handler takes back.
HandlerLists ==
    { <<>>,
      <<Handler("false", FALSE)>>,
      <<Handler("false", TRUE)>>,
      <<Handler("keep", TRUE)>>,
      <<Handler("keep", TRUE), Handler("false", FALSE)>>,
      <<Handler("false", FALSE), Handler("true", FALSE)>> }

Visibilities == [Buttons -> BOOLEAN]

\* The options of SubWindowBase.type, and a kind that is none of them.
WindowKinds == {"resizable", "fixed", "tool", "borderless"}
Bogus == "bogus"

\* The widgets a caller builds to put into a window as its content.
ContentNodes == {"w1", "w2"}

\* ----------------------------------------------------------------- objects
NoPopup ==
    [exists |-> FALSE, _open |-> FALSE, minimized |-> FALSE, maximized |-> FALSE,
     allow_maximize |-> TRUE, content |-> None, owner |-> None, pos |-> Origin, pos_hint |-> PosHintEmpty,
     size_hint |-> SizeHintNone, _premax_pos |-> NonePos, _premax_pos_hint |-> None,
     visible |-> [b \in Buttons |-> TRUE], children |-> <<>>, _container |-> <<>>]

\* exists: the constructor returned the object; _win: WindowClass(**kwargs)
\* was built; handle: the OS window is there; the rest are _win's attributes.
NoNative ==
    [exists |-> FALSE, _created |-> FALSE, _open |-> FALSE, handle |-> FALSE,
     _win |-> FALSE, resizable |-> TRUE, borderless |-> FALSE, position |-> "auto",
     left_top |-> NonePos, title |-> None, raised |-> "ok"]

NoResult == [root |-> None, window |-> None, popup |-> None]

\* The outcome of the call that has just returned, until its caller goes on:
\* op: the method; self: its receiver; force: close's argument; mayClose: the
\* event's field once the handlers ran; log: the events the call dispatched and
\* the hooks it invoked, in order; err: the exception it raised; kv_file and
\* result: a constructor call's argument and the object it left behind;
\* widget: add_widget's and remove_widget's argument; type: the window kind
\* a SubWindowNative was asked for; stopped: a callback bound to on_close ran
\* and returned True.
NoCall ==
    [op |-> None, self |-> None, force |-> FALSE, mayClose |-> TRUE,
     kv_file |-> None, log |-> <<>>, err |-> "ok", result |-> NoResult,
     widget |-> None, type |-> None, stopped |-> FALSE]

\* ----------------------------------------------------------------- helpers
InSeq(x, s) == \E i \in 1..Len(s) : s[i] = x

\* list.insert(index, x)
InsertAt(s, index, x) ==
    LET k == IF index > Len(s) THEN Len(s) ELSE index
    IN SubSeq(s, 1, k) \o <<x>> \o SubSeq(s, k + 1, Len(s))

\* list.remove(x)
Remove(s, x) == SelectSeq(s, LAMBDA y : y # x)

\* resource_find(kv_file) followed by os.path.exists
resource_find(kv_file) == IF kv_file = KvFound THEN kv_file ELSE None

\* ------------------------------------------- EventDispatcher.dispatch
\* dispatch('on_request_close', self, e): the bound handlers run in turn, a
\* handler returning True stops the dispatch, otherwise the class handler
\* SubWindowBase.on_request_close runs last; it returns True and leaves the
\* event alone.  The value is event.mayClose afterwards.
RECURSIVE dispatch_on_request_close(_, _)
dispatch_on_request_close(handlers, mayClose) ==
    IF handlers = <<>> THEN mayClose
    ELSE LET h == Head(handlers)
             m == CASE h.sets = "false" -> FALSE
                    [] h.sets = "true" -> TRUE
                    [] OTHER -> mayClose
         IN IF h.ret THEN m ELSE dispatch_on_request_close(Tail(handlers), m)

\* SubWindowBase.on_request_close, the class handler
on_request_close == TRUE

\* What dispatch() returns: True when a bound handler stopped it, else what
\* the class handler returns.
dispatch_returns(handlers) ==
    IF \E i \in 1..Len(handlers) : handlers[i].ret THEN TRUE ELSE on_request_close

\* SubWindowRequestCloseEvent.__init__: mayClose starts True
SubWindowRequestCloseEvent(force) == [mayClose |-> TRUE, forceClose |-> force]

\* ------------------------------------------- SubWindowBase decisions
\* Faulty variant: the veto is not read.
close_proceeds_despite_veto(force, mayClose, returned) == TRUE

\* Faulty variant: a handler returning True blocks the close, as the
\* module docstring has it for on_close.
close_proceeds_by_return(force, mayClose, returned) == force \/ (mayClose /\ ~returned)

\* close: `if force or e.mayClose`; what dispatch returned is not read
close_proceeds(force, mayClose, returned) == force \/ mayClose

\* close: `self.dispatch('on_close', self)` and then `self._close()`; what
\* the on_close dispatch returned is not read either
_close_follows(returned) == TRUE

\* Faulty variant: the early return is missing.
maximize_returns_never(o) == FALSE

\* maximize: `if self.maximized: return`
maximize_returns(o) == o.maximized

\* minimize: `if self.minimized: return`
minimize_returns(o) == o.minimized

\* Faulty variant: maximized is tested first.
restore_branch_maximized_first(o) ==
    IF o.maximized THEN "maximized"
    ELSE IF o.minimized THEN "minimized"
    ELSE "none"

\* restore: which branch runs
restore_branch(o) ==
    IF o.minimized THEN "minimized"
    ELSE IF o.maximized THEN "maximized"
    ELSE "none"

\* ------------------------------------------- SubWindowPopup
\* The loop of update_buttons over self._buttons, from button b on; `vis` is
\* each button's _visible once its on_visible handlers ran.
RECURSIVE update_buttons_loop(_, _, _, _)
update_buttons_loop(children, vis, b, index) ==
    IF b > NumButtons THEN children
    ELSE LET c == IF vis[b] /\ ~InSeq(b, children) THEN InsertAt(children, index, b)
                  ELSE IF ~vis[b] /\ InSeq(b, children) THEN Remove(children, b)
                  ELSE children
         IN update_buttons_loop(c, vis, b + 1, IF vis[b] THEN index + 1 ELSE index)

\* Faulty variant: the flags are taken over, the row is left as it is.
update_buttons_keeps_row(p, vis) == [p EXCEPT !.visible = vis]

update_buttons(p, vis) ==
    [p EXCEPT !.visible = vis, !.children = update_buttons_loop(p.children, vis, 1, 0)]

\* b.dispatch('on_visible') for every button: the handlers the overlay's kv
\* rule binds leave in `vis` what setVisible was told.  The first button of
\* the row is the maximize button, and it is told False when allow_maximize
\* is; everything else is the handlers' choice.
on_visible(p, vis) == ~p.allow_maximize => ~vis[1]

\* SubWindowPopup(auto_dismiss=False, **kwargs): the properties come from the
\* keyword arguments, every button of the row is collected and visible, and
\* on__container has put the content, if any, into the content slot.
SubWindowPopup__init__(kwargs) ==
    [exists |-> TRUE, _open |-> FALSE,
     minimized |-> kwargs.minimized, maximized |-> kwargs.maximized,
     allow_maximize |-> kwargs.allow_maximize,
     content |-> kwargs.content, owner |-> None,
     pos |-> kwargs.pos, pos_hint |-> kwargs.pos_hint, size_hint |-> kwargs.size_hint,
     _premax_pos |-> NonePos, _premax_pos_hint |-> None,
     visible |-> [b \in Buttons |-> TRUE],
     children |-> [b \in Buttons |-> b],
     _container |-> IF kwargs.content = None THEN <<>> ELSE <<kwargs.content>>]

\* FloatModalView.open / dismiss: show and hide the panel.
FloatModalView_open(p) == [p EXCEPT !._open = TRUE]
FloatModalView_dismiss(p) == [p EXCEPT !._open = FALSE]

SubWindowPopup__close(p) == IF ~p._open THEN p ELSE FloatModalView_dismiss(p)

\* on_content: the content slot is cleared and given the new content.
on_content(p, value) == [p EXCEPT !._container = <<value>>]

\* Faulty variant: content already present is not noticed.
content_conflict_ignored(p) == FALSE

\* add_widget: `if self.content: raise SubWindowException`
content_conflict(p) == p.content # None

\* SubWindowPopup.add_widget once the kv rule has assigned _container
SubWindowPopup_add_widget(p, widget) ==
    IF content_conflict(p) THEN p
    ELSE on_content([p EXCEPT !.content = widget], widget)

SubWindowPopup__maximize(p, vis) ==
    update_buttons(
        [p EXCEPT !._premax_pos = p.pos, !._premax_pos_hint = p.pos_hint,
                  !.pos = Origin, !.pos_hint = PosHintEmpty, !.size_hint = SizeHintFull],
        vis)

SubWindowPopup__minimize(p) == p

\* _restore: `self.pos = self._premax_pos` with _premax_pos still None is
\* rejected by the pos property, after size_hint was assigned.
restore_raises(p, wasMinimized) == ~wasMinimized /\ p._premax_pos = NonePos

SubWindowPopup__restore(p, wasMinimized, vis) ==
    IF wasMinimized THEN p
    ELSE IF restore_raises(p, wasMinimized) THEN [p EXCEPT !.size_hint = SizeHintNone]
    ELSE update_buttons(
             [p EXCEPT !.size_hint = SizeHintNone, !.pos = p._premax_pos,
                       !.pos_hint = p._premax_pos_hint],
             vis)

\* ------------------------------------------- SubWindowNative
\* WindowClass(subwindow=True, **kwargs): the window object; its attributes
\* are at their defaults and no OS window is there before create_window().
WindowClass(kwargs) == [NoNative EXCEPT !._win = TRUE]

\* Faulty variant: the final else branch is missing.
unhandled_type_accepted(type) == FALSE

\* __init__: the else branch of the chain over kwargs['type']
unhandled_type(type) == type \notin {"resizable", "fixed", "tool", "borderless"}

\* SubWindowNative(**kwargs): the object as the constructor leaves it; when
\* it raises, the caller gets no object (exists stays FALSE).
SubWindowNative__init__(kwargs) ==
    LET win == WindowClass(kwargs)
        kind == [win EXCEPT !.resizable = kwargs.type = "resizable",
                            !.borderless = kwargs.type = "borderless"]
    IN IF unhandled_type(kwargs.type)
       THEN [win EXCEPT !.raised = "SubWindowException"]
       ELSE [kind EXCEPT !.exists = TRUE, !.position = "custom",
                         !.left_top = kwargs.pos, !.title = kwargs.title]

SubWindowNative_open(n) ==
    IF n._open THEN n
    ELSE IF ~n._created THEN [n EXCEPT !._created = TRUE, !.handle = TRUE, !._open = TRUE]
    ELSE n

\* The calls open makes on _win.
SubWindowNative_open_calls(n) ==
    IF ~n._open /\ ~n._created THEN <<"create_window", "set_title">> ELSE <<>>

\* WindowClass.close: the OS window is torn down.
WindowClass_close(n) == [n EXCEPT !.handle = FALSE]

\* close: `if not self._open: return`
close_returns(n) == ~n._open

\* SubWindowNative.close; _open is left as it is.
SubWindowNative_close(n) == IF close_returns(n) THEN n ELSE WindowClass_close(n)

\* The calls close makes on _win.
SubWindowNative_close_calls(n) == IF close_returns(n) THEN <<>> ELSE <<"_win.close">>

\* ------------------------------------------- SubWindow (facade)
\* Faulty variant: the missing file is not noticed.
kv_not_found_ignored(kv_file) == FALSE

\* _create_subwindow: `if rfilename is None or not exists(rfilename)`
kv_not_found(kv_file) == resource_find(kv_file) = None

\* Faulty variant: allow_native is not read.
creates_native_on_platform(use, allow_native) == use

\* _create_subwindow: `if SubWindow.UseNativeWindow and self.allow_native`
creates_native(use, allow_native) == use /\ allow_native

\* The keyword arguments of an overlay the caller builds: the defaults.
popup_kwargs ==
    [pos |-> Origin, pos_hint |-> PosHintEmpty, size_hint |-> SizeHintFull,
     type |-> "resizable", title |-> "No title", kv_file |-> "",
     minimized |-> FALSE, maximized |-> FALSE, allow_maximize |-> TRUE,
     content |-> None]

\* The keyword arguments open() builds before it calls _create_subwindow.
open_kwargs(f) ==
    [pos |-> f.pos, pos_hint |-> f.pos_hint, size_hint |-> f.size_hint,
     type |-> f.type, title |-> f.title, kv_file |-> f.kv_file,
     minimized |-> f.minimized, maximized |-> f.maximized,
     allow_maximize |-> f.allow_maximize, content |-> f.content]

\* _create_subwindow on the state s = [facade, popup, native, clock].
_create_subwindow(s, kwargs) ==
    LET f == s.facade
        loads == f.content = None /\ f.kv_file # ""
        f1 == IF loads THEN [f EXCEPT !.content = "kv"] ELSE f
    IN IF loads /\ kv_not_found(f.kv_file)
       THEN s
       ELSE IF creates_native(UseNativeWindow, f.allow_native)
       THEN LET w == SubWindowNative__init__(kwargs)
            IN IF w.raised # "ok"
               THEN [s EXCEPT !.facade = f1, !.err = w.raised]
               ELSE [s EXCEPT !.facade = [f1 EXCEPT !.window = "native"], !.native = w]
       ELSE [s EXCEPT !.facade = [f1 EXCEPT !.popup = "popup"],
                      !.popup = [SubWindowPopup__init__(kwargs) EXCEPT !.owner = "facade"],
                      !.clock = Append(s.clock, "SubWindowPopup._post_init")]

\* self.popup is the overlay the facade built or the one it was given.
SubWindow_open(s) ==
    LET s1 == IF s.facade.popup = None /\ s.facade.window = None
              THEN _create_subwindow(s, open_kwargs(s.facade))
              ELSE s
        s2 == IF s1.facade.popup = "popup"
              THEN [s1 EXCEPT !.popup = FloatModalView_open(s1.popup)]
              ELSE IF s1.facade.popup = "other"
              THEN [s1 EXCEPT !.other = FloatModalView_open(s1.other)]
              ELSE s1
    IN IF s2.facade.window # None
       THEN [s2 EXCEPT !.native = SubWindowNative_open(s2.native)]
       ELSE s2

\* SubWindow._close: the popup's hook, then `self.window._close()`, a method
\* SubWindowNative does not have: the result says whether that raised.
SubWindow__close(s) ==
    LET s1 == IF s.facade.popup = "popup"
              THEN [s EXCEPT !.popup = SubWindowPopup__close(s.popup)]
              ELSE IF s.facade.popup = "other"
              THEN [s EXCEPT !.other = SubWindowPopup__close(s.other)]
              ELSE s
    IN [s1 EXCEPT !.err = IF s.facade.window # None THEN "AttributeError" ELSE "ok"]

\* isinstance(widget, SubWindowPopup)
isSubWindowPopup(widget) == widget \in {"popup", "other"}

\* Faulty variant: an overlay is taken whatever the facade already holds.
add_widget_rejects_type_only(f, widget) == ~isSubWindowPopup(widget)

\* SubWindow.add_widget: the two `raise SubWindowException`
add_widget_rejects(f, widget) ==
    \/ ~isSubWindowPopup(widget)
    \/ f.popup # None /\ f.popup # widget

\* on_popup, run when the popup property changes: `value.owner = self`
on_popup(s, value) ==
    IF value = "popup" THEN [s EXCEPT !.popup = [s.popup EXCEPT !.owner = "facade"]]
    ELSE IF value = "other" THEN [s EXCEPT !.other = [s.other EXCEPT !.owner = "facade"]]
    ELSE s

SubWindow_add_widget(s, widget) ==
    IF add_widget_rejects(s.facade, widget) THEN s
    ELSE IF s.facade.popup = widget THEN s
    ELSE on_popup([s EXCEPT !.facade = [s.facade EXCEPT !.popup = widget]], widget)

SubWindow_remove_widget(s, widget) ==
    IF widget = s.facade.popup
    THEN on_popup([s EXCEPT !.facade = [s.facade EXCEPT !.popup = None]], None)
    ELSE s

\* The state as the operators above take it; err is the exception raised.
State ==
    [facade |-> facade, popup |-> popup, native |-> native, other |-> other,
     clock |-> clock, err |-> "ok"]

Becomes(s) ==
    /\ facade' = s.facade
    /\ popup' = s.popup
    /\ native' = s.native
    /\ other' = s.other
    /\ clock' = s.clock

\* No outcome is pending: the caller is free to make its next call.
Idle == call = NoCall

\* The caller has seen the outcome of its last call and goes on.
caller_continues ==
    /\ ~Idle
    /\ call' = NoCall
    /\ UNCHANGED <<UseNativeWindow, facade, popup, native, other, clock>>

Receiver(self) == IF self = "facade" THEN facade ELSE popup

\* The receivers a caller can reach: the facade, and its overlay once created.
Reachable(self) == self = "facade" \/ (self = "popup" /\ popup.exists)

\* `popup` holds the one overlay the facade has built.  Once remove_widget
\* has taken it from the facade, an open would build another: the model
\* follows the facade up to there.
BuildsAnother == facade.popup = None /\ facade.window = None /\ popup.exists

\* ------------------------------------------- actions: SubWindow
open ==
    LET s == SubWindow_open(State)
    IN /\ Idle
       /\ ~BuildsAnother
       /\ Becomes(s)
       /\ call' = [NoCall EXCEPT !.op = "open", !.self = "facade"]
       /\ UNCHANGED UseNativeWindow

\* ------------------------------------------- actions: SubWindowBase
\* handlers are bound to on_request_close; returnsTrue says that a callback
\* bound to on_close returns True.
close(self, force, handlers, returnsTrue) ==
    LET e == SubWindowRequestCloseEvent(force)
        mayClose == dispatch_on_request_close(handlers, e.mayClose)
        proceeds == close_proceeds(force, mayClose, dispatch_returns(handlers))
                      /\ _close_follows(returnsTrue)
        s == IF ~proceeds THEN State
             ELSE IF self = "facade" THEN SubWindow__close(State)
             ELSE [State EXCEPT !.popup = SubWindowPopup__close(popup)]
    IN /\ Idle
       /\ Reachable(self)
       /\ Becomes(s)
       /\ call' = [NoCall EXCEPT
                     !.op = "close", !.self = self, !.force = e.forceClose,
                     !.mayClose = mayClose, !.err = s.err,
                     !.stopped = close_proceeds(force, mayClose, FALSE) /\ returnsTrue,
                     !.log = <<"on_request_close">> \o
                             (IF proceeds THEN <<"on_close", "_close">> ELSE <<>>)]
       /\ UNCHANGED UseNativeWindow

\* SubWindowBase.maximize, minimize and restore as the object they leave.
\* On the overlay the hooks are SubWindowPopup's.  On the facade the hooks
\* _maximize, _minimize and _restore are looked up after the flag is set and
\* the event dispatched; SubWindow defines none of them, so the lookup raises
\* AttributeError and the flag stays set.
SubWindowPopup_maximize(p, vis) ==
    IF maximize_returns(p) THEN p
    ELSE SubWindowPopup__maximize([p EXCEPT !.maximized = TRUE], vis)

SubWindow_maximize(f) ==
    IF maximize_returns(f) THEN f ELSE [f EXCEPT !.maximized = TRUE]

SubWindowPopup_minimize(p) ==
    IF minimize_returns(p) THEN p
    ELSE SubWindowPopup__minimize([p EXCEPT !.minimized = TRUE])

SubWindow_minimize(f) ==
    IF minimize_returns(f) THEN f ELSE [f EXCEPT !.minimized = TRUE]

\* restore's flag assignment: the branch's own flag, and no other
clear_flag(o, branch) ==
    IF branch = "minimized" THEN [o EXCEPT !.minimized = FALSE]
    ELSE IF branch = "maximized" THEN [o EXCEPT !.maximized = FALSE]
    ELSE o

SubWindowPopup_restore(p, vis) ==
    LET branch == restore_branch(p)
    IN IF branch = "none" THEN p
       ELSE SubWindowPopup__restore(clear_flag(p, branch), branch = "minimized", vis)

SubWindow_restore(f) == clear_flag(f, restore_branch(f))

\* The on_restore dispatch with its wasMinimized argument, as a log entry.
on_restore(wasMinimized) ==
    IF wasMinimized THEN "on_restore(True)" ELSE "on_restore(False)"

\* The events a call dispatched, then the hook it invoked when the receiver
\* has it; the exception when it has not.
Outcome(op, self, events, hook) ==
    [NoCall EXCEPT
       !.op = op, !.self = self,
       !.log = IF events = <<>> THEN <<>>
               ELSE IF self = "facade" THEN events ELSE Append(events, hook),
       !.err = IF events # <<>> /\ self = "facade" THEN "AttributeError" ELSE "ok"]

maximize(self, vis) ==
    /\ Idle
    /\ Reachable(self)
    /\ self = "popup" => on_visible(popup, vis)
    /\ UNCHANGED <<UseNativeWindow, native, other, clock>>
    /\ IF self = "facade"
       THEN facade' = SubWindow_maximize(facade) /\ UNCHANGED popup
       ELSE popup' = SubWindowPopup_maximize(popup, vis) /\ UNCHANGED facade
    /\ call' = Outcome("maximize", self,
                       IF maximize_returns(Receiver(self)) THEN <<>> ELSE <<"on_maximize">>,
                       "_maximize")

minimize(self) ==
    /\ Idle
    /\ Reachable(self)
    /\ UNCHANGED <<UseNativeWindow, native, other, clock>>
    /\ IF self = "facade"
       THEN facade' = SubWindow_minimize(facade) /\ UNCHANGED popup
       ELSE popup' = SubWindowPopup_minimize(popup) /\ UNCHANGED facade
    /\ call' = Outcome("minimize", self,
                       IF minimize_returns(Receiver(self)) THEN <<>> ELSE <<"on_minimize">>,
                       "_minimize")

restore(self, vis) ==
    LET branch == restore_branch(Receiver(self))
        wasMinimized == branch = "minimized"
        out == Outcome("restore", self,
                       IF branch = "none" THEN <<>> ELSE <<on_restore(wasMinimized)>>,
                       "_restore")
    IN /\ Idle
       /\ Reachable(self)
       /\ self = "popup" => on_visible(popup, vis)
       /\ UNCHANGED <<UseNativeWindow, native, other, clock>>
       /\ IF self = "facade"
          THEN facade' = SubWindow_restore(facade) /\ UNCHANGED popup
          ELSE popup' = SubWindowPopup_restore(popup, vis) /\ UNCHANGED facade
       /\ call' = IF self = "popup" /\ branch # "none" /\ restore_raises(popup, wasMinimized)
                  THEN [out EXCEPT !.err = "ValueError"]
                  ELSE out

\* SubWindow._switch is `pass`; SubWindowPopup._switch forwards to its owner's.
SubWindow__switch(s) == s

SubWindowPopup__switch(s) == IF s.popup.owner # None THEN SubWindow__switch(s) ELSE s

switch(self) ==
    /\ Idle
    /\ Reachable(self)
    /\ Becomes(IF self = "facade" THEN SubWindow__switch(State)
               ELSE SubWindowPopup__switch(State))
    /\ call' = [NoCall EXCEPT !.op = "switch", !.self = self, !.log = <<"_switch">>]
    /\ UNCHANGED UseNativeWindow

\* ------------------------------------------- actions: add_widget
\* The widgets a caller can hand over: the ones it built, and the facade's
\* overlay once that exists.
Available(widget) == widget = "popup" => popup.exists

\* add_widget on the facade (SubWindow.add_widget) or on its overlay
\* (SubWindowPopup.add_widget).
add_widget(self, widget) ==
    LET s == IF self = "facade" THEN SubWindow_add_widget(State, widget)
             ELSE [State EXCEPT !.popup = SubWindowPopup_add_widget(popup, widget)]
        raises == IF self = "facade" THEN add_widget_rejects(facade, widget)
                  ELSE content_conflict(popup)
    IN /\ Idle
       /\ Reachable(self)
       /\ Available(widget)
       /\ Becomes(s)
       /\ call' = [NoCall EXCEPT
                     !.op = "add_widget", !.self = self, !.widget = widget,
                     !.err = IF raises THEN "SubWindowException" ELSE "ok"]
       /\ UNCHANGED UseNativeWindow

remove_widget(widget) ==
    /\ Idle
    /\ Available(widget)
    /\ Becomes(SubWindow_remove_widget(State, widget))
    /\ call' = [NoCall EXCEPT !.op = "remove_widget", !.self = "facade", !.widget = widget]
    /\ UNCHANGED UseNativeWindow

\* ------------------------------------------- actions: SubWindowNative
\* A caller builds the adapter itself, with the facade's keyword arguments
\* and a window kind of its choice.
SubWindowNative(type) ==
    LET w == SubWindowNative__init__([open_kwargs(facade) EXCEPT !.type = type])
    IN /\ Idle
       /\ ~native.exists
       /\ native' = w
       /\ call' = [NoCall EXCEPT !.op = "SubWindowNative", !.self = "native",
                     !.type = type, !.err = w.raised]
       /\ UNCHANGED <<UseNativeWindow, facade, popup, other, clock>>

\* open and close on the adapter the caller holds.
window_open ==
    /\ Idle
    /\ native.exists
    /\ native' = SubWindowNative_open(native)
    /\ call' = [NoCall EXCEPT !.op = "SubWindowNative.open", !.self = "native",
                  !.log = SubWindowNative_open_calls(native)]
    /\ UNCHANGED <<UseNativeWindow, facade, popup, other, clock>>

window_close ==
    /\ Idle
    /\ native.exists
    /\ native' = SubWindowNative_close(native)
    /\ call' = [NoCall EXCEPT !.op = "SubWindowNative.close", !.self = "native",
                  !.log = SubWindowNative_close_calls(native)]
    /\ UNCHANGED <<UseNativeWindow, facade, popup, other, clock>>

\* ------------------------------------------- actions: Clock
\* A callback given to a recurring timer stays on the clock after its run.
runs_again_as_interval(callback) == TRUE

\* Clock.schedule_once(self._post_init): the callback is run one time.
runs_again(callback) == FALSE

\* SubWindow._post_init: opens the window when auto_open is set.
SubWindow__post_init(s) ==
    IF s.facade.auto_open THEN SubWindow_open(s) ELSE s

\* SubWindowPopup._post_init: refreshes the buttons.
SubWindowPopup__post_init(s, vis) ==
    [s EXCEPT !.popup = update_buttons(s.popup, vis)]

\* The next frame runs the oldest callback given to Clock.schedule_once.
clock_tick(vis) ==
    /\ Idle
    /\ clock # <<>>
    /\ on_visible(popup, vis)
    /\ LET rest == [State EXCEPT !.clock =
                       IF runs_again(Head(clock))
                       THEN Append(Tail(clock), Head(clock))
                       ELSE Tail(clock)]
           s == IF Head(clock) = "SubWindow._post_init"
                THEN SubWindow__post_init(rest)
                ELSE SubWindowPopup__post_init(rest, vis)
       IN /\ (Head(clock) = "SubWindow._post_init" /\ facade.auto_open) => ~BuildsAnother
          /\ Becomes(s)
          /\ call' = [NoCall EXCEPT !.op = Head(clock)]
    /\ UNCHANGED UseNativeWindow

\* ------------------------------------------- kivy.core.subwindow.SubWindow
\* SubWindow(kv_file=..., allowNative=...) of the core revision: the object
\* the constructor leaves behind is the call's result.  _create_window reads
\* self.title, which that class never sets.  It shares nothing with the
\* widget, and is followed while the widget has built no representation.
core_SubWindow(kv_file, allowNative) ==
    LET loads == kv_file # None
        root == IF loads THEN "kv" ELSE None
        r == IF loads /\ kv_not_found(kv_file)
             THEN [obj |-> NoResult, err |-> "ok"]
             ELSE IF creates_native(UseNativeWindow, allowNative)
             THEN [obj |-> [NoResult EXCEPT !.root = root], err |-> "AttributeError"]
             ELSE [obj |-> [NoResult EXCEPT !.root = root, !.popup = "opened"],
                   err |-> "ok"]
    IN /\ Idle
       /\ ~popup.exists /\ ~native.exists
       /\ call' = [NoCall EXCEPT !.op = "core.SubWindow", !.self = "core",
                     !.kv_file = kv_file, !.result = r.obj,
                     !.err = r.err]
       /\ UNCHANGED <<UseNativeWindow, facade, popup, native, other, clock>>

\* ------------------------------------------- specification
\* A facade just constructed: SubWindow.__init__ has scheduled _post_init.
\* The caller's own overlay was built, and refreshed, in an earlier frame.
Init ==
    /\ UseNativeWindow \in BOOLEAN
    /\ \E c \in Constructions, content \in {None, "given"}, kv_file \in KvFiles,
          allow_native \in BOOLEAN :
         /\ content = "given" => kv_file # KvFound
         /\ facade =
              [minimized |-> FALSE, maximized |-> FALSE,
               allow_maximize |-> c.allow_maximize, content |-> content,
               kv_file |-> kv_file, allow_native |-> allow_native,
               auto_open |-> c.auto_open, popup |-> None, window |-> None,
               pos |-> c.g.pos, pos_hint |-> c.g.pos_hint, size_hint |-> c.g.size_hint,
               type |-> "resizable", title |-> "No title"]
    /\ popup = NoPopup
    /\ native = NoNative
    /\ other = SubWindowPopup__init__(popup_kwargs)
    /\ clock = <<"SubWindow._post_init">>
    /\ call = NoCall

\* The facade has no buttons: a call on it leaves the flags as they are.  A
\* callback bound to on_close is followed for the callers that bound nothing
\* to on_request_close.
Next ==
    \/ open
    \/ \E self \in {"facade", "popup"}, force \in BOOLEAN, handlers \in HandlerLists :
         close(self, force, handlers, FALSE)
    \/ \E self \in {"facade", "popup"}, force \in BOOLEAN : close(self, force, <<>>, TRUE)
    \/ \E vis \in Visibilities : maximize("popup", vis)
    \/ maximize("facade", popup.visible)
    \/ \E self \in {"facade", "popup"} : minimize(self)
    \/ \E vis \in Visibilities : restore("popup", vis)
    \/ restore("facade", popup.visible)
    \/ \E self \in {"facade", "popup"} : switch(self)
    \/ \E widget \in ContentNodes : add_widget("popup", widget)
    \/ \E vis \in Visibilities : clock_tick(vis)
    \/ \E kv_file \in KvFiles \cup {None}, allowNative \in BOOLEAN :
         core_SubWindow(kv_file, allowNative)
    \/ caller_continues

\* The lifecycle protocol: a caller that opens, closes, maximizes, minimizes,
\* restores and switches the window and fills the overlay's content slot.
Spec == Init /\ [][Next]_vars

\* The widgets handed to the facade's add_widget and remove_widget: one that
\* is no overlay, the overlay the facade built, the caller's own overlay.
Attachables == {"w1", "popup", "other"}

\* Attachment: a caller that opens, closes and switches the window and
\* attaches overlays to the facade and detaches them.
NextAttach ==
    \/ open
    \/ \E force \in BOOLEAN, handlers \in HandlerLists : close("facade", force, handlers, FALSE)
    \/ \E force \in BOOLEAN : close("facade", force, <<>>, TRUE)
    \/ switch("facade")
    \/ \E widget \in Attachables : add_widget("facade", widget)
    \/ \E widget \in Attachables : remove_widget(widget)
    \/ \E vis \in Visibilities : clock_tick(vis)
    \/ caller_continues

SpecAttach == Init /\ [][NextAttach]_vars

\* The event loop: a caller that opens and closes the window while the frames
\* go by. Every frame runs the clock, and every call returns.
NextFrames ==
    \/ open
    \/ \E self \in {"facade", "popup"}, force \in BOOLEAN, handlers \in HandlerLists :
         close(self, force, handlers, FALSE)
    \/ \E vis \in Visibilities : clock_tick(vis)
    \/ caller_continues

SpecFrames ==
    /\ Init
    /\ [][NextFrames]_vars
    /\ WF_vars(caller_continues)
    /\ SF_vars(\E vis \in Visibilities : clock_tick(vis))

\* The native adapter used on its own: a caller that builds a SubWindowNative
\* and opens and closes it.
NextNative ==
    \/ \E type \in WindowKinds \cup {Bogus} : SubWindowNative(type)
    \/ window_open
    \/ window_close
    \/ caller_continues

SpecNative == Init /\ [][NextNative]_vars

\* ----------------------------------------------------------------- claims
ProgramState == <<facade, popup, native, other, clock>>

\* Some representation of the facade is shown.
SomeOpen == popup._open \/ native._open

\* C1: once close(force=True) has returned, on the facade or on its overlay,
\* no representation the facade opened is still open and the call raised
\* nothing.
C1_ForcedCloseCloses ==
    (call.op = "close" /\ call.force) => (call.err = "ok" /\ ~SomeOpen)

\* C2: a close(force=False) whose handlers left mayClose false changes no
\* state of the facade, the overlay, the native window or the clock,
\* dispatches no on_close and invokes no close hook.
C2_VetoedCloseChangesNothing ==
    [][(call'.op = "close" /\ ~call'.force /\ ~call'.mayClose)
         => (/\ UNCHANGED ProgramState
             /\ ~InSeq("on_close", call'.log)
             /\ ~InSeq("_close", call'.log))]_vars

C2_Witness ==
    call.op = "close" /\ ~call.force /\ ~call.mayClose /\ SomeOpen

\* C3: every close dispatches on_request_close exactly once and first, and
\* on_close and the close hook follow, in that order, exactly when force is
\* true or mayClose is still true, whatever the handlers returned.
C3_CloseProtocol ==
    call.op = "close" =>
        call.log = IF call.force \/ call.mayClose
                   THEN <<"on_request_close", "on_close", "_close">>
                   ELSE <<"on_request_close">>

C3_Witness ==
    call.op = "close" /\ ~call.force /\ call.mayClose /\ Len(call.log) = 3 /\ popup.exists

\* The receiver of the call that is returning, before and after it.
Before == IF call'.self = "facade" THEN facade ELSE popup
After == IF call'.self = "facade" THEN facade' ELSE popup'

\* C4: maximize leaves its receiver maximized, and a maximize on a receiver
\* that is already maximized changes no state, dispatches no on_maximize and
\* invokes no hook: a second maximize leaves what the first left.
C4_MaximizeIdempotent ==
    [][call'.op = "maximize"
         => (/\ After.maximized
             /\ Before.maximized => (UNCHANGED ProgramState /\ call'.log = <<>>))]_vars

\* A second maximize has returned on an overlay the first one moved.
C4_Witness ==
    /\ call.op = "maximize" /\ call.self = "popup" /\ call.log = <<>>
    /\ popup.maximized /\ popup._premax_pos # NonePos /\ popup._premax_pos # Origin

\* C5: from every overlay that is not maximized, maximize() then restore()
\* gives back the position, the pos_hint and the size_hint it started with.
C5_MaximizeRestoreRoundTrip ==
    (popup.exists /\ ~popup.maximized) =>
        \A vis1, vis2 \in Visibilities :
            LET after == SubWindowPopup_restore(SubWindowPopup_maximize(popup, vis1), vis2)
            IN /\ after.pos = popup.pos
               /\ after.pos_hint = popup.pos_hint
               /\ after.size_hint = popup.size_hint

\* C6: no receiver is ever minimized and maximized at once.
C6_MinimizedMaximizedExclusive ==
    /\ ~(facade.minimized /\ facade.maximized)
    /\ ~(popup.minimized /\ popup.maximized)

\* C7: restore on a minimized receiver clears minimized alone and dispatches
\* on_restore with wasMinimized true; otherwise on a maximized receiver it
\* clears maximized alone and dispatches on_restore with wasMinimized false;
\* on a receiver that is neither it changes nothing and dispatches nothing.
C7_RestoreClearsOneFlag ==
    [][call'.op = "restore"
         => IF Before.minimized
            THEN /\ ~After.minimized
                 /\ After.maximized = Before.maximized
                 /\ call'.log[1] = "on_restore(True)"
                 /\ ~InSeq("on_restore(False)", call'.log)
            ELSE IF Before.maximized
            THEN /\ ~After.maximized
                 /\ ~After.minimized
                 /\ call'.log[1] = "on_restore(False)"
                 /\ ~InSeq("on_restore(True)", call'.log)
            ELSE UNCHANGED ProgramState /\ call'.log = <<>>]_vars

\* A restore has returned on an overlay that was minimized and maximized.
C7_Witness ==
    /\ call.op = "restore" /\ call.self = "popup"
    /\ call.log = <<"on_restore(True)", "_restore">>
    /\ popup.maximized /\ ~popup.minimized

\* C8: switch on a facade with a representation replaces the overlay by a
\* native window or the native window by an overlay, and keeps title,
\* content, minimized and maximized; one representation before, one after.
C8_SwitchFlips ==
    [][(call'.op = "switch" /\ (facade.popup # None \/ facade.window # None))
         => (/\ (facade.popup # None) = (facade'.window # None)
             /\ (facade.window # None) = (facade'.popup # None)
             /\ (facade'.popup = None) # (facade'.window = None)
             /\ facade'.title = facade.title
             /\ facade'.content = facade.content
             /\ facade'.minimized = facade.minimized
             /\ facade'.maximized = facade.maximized)]_vars

\* The calls that run SubWindow.open: open itself and the deferred _post_init.
Opens == call'.op = "open" \/ call'.op = "SubWindow._post_init"

\* C9: an open that finds no representation creates at most one, the native
\* one exactly when UseNativeWindow and allow_native are both true and the
\* overlay otherwise; an open that finds a representation keeps it and
\* creates nothing.
C9_RepresentationChoice ==
    [][Opens
         => IF facade.popup = None /\ facade.window = None
            THEN \/ /\ facade'.popup = None /\ facade'.window = None
                    /\ ~popup'.exists /\ ~native'.exists
                 \/ /\ UseNativeWindow /\ facade.allow_native
                    /\ facade'.window # None /\ facade'.popup = None
                    /\ native'.exists /\ ~popup'.exists
                 \/ /\ ~(UseNativeWindow /\ facade.allow_native)
                    /\ facade'.popup # None /\ facade'.window = None
                    /\ popup'.exists /\ ~native'.exists
            ELSE /\ facade'.popup = facade.popup /\ facade'.window = facade.window
                 /\ popup'.exists = popup.exists /\ native'.exists = native.exists]_vars

\* On a platform with native windows, an open with allow_native false has
\* returned and the overlay is shown.
C9_Witness ==
    /\ call.op = "open" /\ UseNativeWindow /\ ~facade.allow_native
    /\ facade.popup # None /\ facade.window = None /\ popup._open

\* C10: an open of a facade with no content, no representation and a kv_file
\* that cannot be found leaves popup, window and content unset and raises
\* nothing; the core revision's constructor, given such a kv_file, leaves
\* root, window and popup unset and raises nothing.
C10_MissingKvFile ==
    [][/\ (/\ Opens
           /\ facade.content = None /\ facade.kv_file = KvMissing
           /\ facade.popup = None /\ facade.window = None)
          => (/\ facade'.popup = None /\ facade'.window = None
              /\ ~popup'.exists /\ ~native'.exists
              /\ facade'.content = None
              /\ call'.err = "ok")
       /\ (call'.op = "core.SubWindow" /\ call'.kv_file = KvMissing)
          => (call'.result = NoResult /\ call'.err = "ok")]_vars

C10_Witness ==
    call.op = "open" /\ facade.content = None /\ facade.kv_file = KvMissing

\* C11: no representation exists before an open builds it; a close on the
\* facade that is not vetoed destroys the representation, leaving the facade
\* with none and nothing shown; an open that finds none then builds one; and
\* every open of a facade that can build its content leaves the window shown.
C11_LazyCreateDestroyRecreate ==
    [][/\ (~popup.exists /\ ~native.exists /\ (popup'.exists \/ native'.exists))
            => Opens
       /\ (call'.op = "close" /\ call'.self = "facade"
             /\ (call'.force \/ call'.mayClose))
            => (facade'.popup = None /\ facade'.window = None /\ ~SomeOpen')
       /\ (call'.op = "open" /\ ~(facade.content = None /\ facade.kv_file = KvMissing))
            => (SomeOpen' /\ (facade'.popup # None \/ facade'.window # None))]_vars

\* C12: add_widget on an overlay that has content raises SubWindowException
\* and leaves the overlay as it was; on an overlay without content it makes
\* the widget the content; the content slot never holds more than one node,
\* and the node it holds is the content.
C12_SecondContentRejected ==
    [][/\ (call'.op = "add_widget" /\ call'.self = "popup")
            => IF popup.content # None
               THEN call'.err = "SubWindowException" /\ popup' = popup
               ELSE call'.err = "ok" /\ popup'.content = call'.widget
       /\ Len(popup'._container) <= 1
       /\ popup'.content # None => popup'._container = <<popup'.content>>]_vars

\* A second node was offered to an overlay that holds the first.
C12_Witness ==
    /\ call.op = "add_widget" /\ call.self = "popup" /\ call.err = "SubWindowException"
    /\ popup.content = "w1" /\ call.widget = "w2" /\ popup._container = <<"w1">>

\* C13: add_widget on the facade with a widget that is no SubWindowPopup, or
\* with an overlay other than the one the facade holds, raises
\* SubWindowException and changes nothing; with the overlay the facade holds,
\* or with any overlay when it holds none, it raises nothing and the facade
\* holds that overlay afterwards.
C13_FacadeAttachRejected ==
    [][(call'.op = "add_widget" /\ call'.self = "facade")
         => IF \/ call'.widget \notin {"popup", "other"}
               \/ facade.popup # None /\ facade.popup # call'.widget
            THEN call'.err = "SubWindowException" /\ UNCHANGED ProgramState
            ELSE call'.err = "ok" /\ facade'.popup = call'.widget]_vars

\* A second overlay was offered to a facade that holds the one it built.
C13_Witness ==
    /\ call.op = "add_widget" /\ call.self = "facade" /\ call.widget = "other"
    /\ call.err = "SubWindowException" /\ facade.popup = "popup" /\ popup._open

C15_NativeOpenCloseIdempotent ==
    [][/\ (call'.op = "SubWindowNative.open" /\ native.handle)
            => (native' = native /\ call'.log = <<>>)
       /\ (call'.op = "SubWindowNative.close" /\ ~native.handle)
            => (native' = native /\ call'.log = <<>>)
       /\ (call'.op = "SubWindowNative.open" /\ InSeq("create_window", call'.log))
            => (~native.handle /\ native'.handle)]_vars

\* C16: a close during which a callback bound to on_close returned True
\* leaves every representation that was shown still shown.
C16_OnCloseReturnVetoes ==
    [][(call'.op = "close" /\ call'.stopped)
         => (/\ popup._open => popup'._open
             /\ native._open => native'._open
             /\ ~InSeq("_close", call'.log))]_vars

\* C17: a facade or an overlay whose allow_maximize is false is never
\* maximized.
C17_AllowMaximizeGuards ==
    /\ ~facade.allow_maximize => ~facade.maximized
    /\ (popup.exists /\ ~popup.allow_maximize) => ~popup.maximized

\* C18: the facade never holds an overlay and a native window together.
C18_OneRepresentation ==
    ~(facade.popup # None /\ facade.window # None)

\* The buttons whose visibility flag is true, in the order of the fixed list.
VisibleButtons(p) == SelectSeq([b \in Buttons |-> b], LAMBDA b : p.visible[b])

C20_MinimizeNeverFails ==
    [][call'.op = "minimize"
         => IF ~Before.minimized
            THEN /\ After.minimized
                 /\ Len(SelectSeq(call'.log, LAMBDA x : x = "on_minimize")) = 1
                 /\ call'.err = "ok"
                 /\ After.pos = Before.pos
                 /\ After.pos_hint = Before.pos_hint
                 /\ After.size_hint = Before.size_hint
            ELSE UNCHANGED ProgramState /\ call'.log = <<>> /\ call'.err = "ok"]_vars

\* C21: while the facade holds the overlay it built, its minimized and
\* maximized flags are the overlay's.
C21_FlagsMirrored ==
    (facade.popup = "popup" /\ popup.exists) =>
        /\ facade.minimized = popup.minimized
        /\ facade.maximized = popup.maximized

\* The saved pre-maximize geometry of an overlay.
Premax(p) == <<p._premax_pos, p._premax_pos_hint>>

\* C22: the saved pre-maximize geometry is absent on every overlay that is
\* not maximized; it changes only in a maximize that makes the overlay
\* maximized, in a restore from maximized, or when the overlay is built; and
\* a restore from minimized leaves it as it is.
C22_PremaxLifetime ==
    [][/\ (popup'.exists /\ ~popup'.maximized) => Premax(popup') = <<NonePos, None>>
       /\ (popup.exists /\ Premax(popup') # Premax(popup))
            => \/ call'.op = "maximize" /\ call'.self = "popup"
                    /\ ~popup.maximized /\ popup'.maximized
               \/ call'.op = "restore" /\ call'.self = "popup"
                    /\ ~popup.minimized /\ popup.maximized
       /\ (call'.op = "restore" /\ call'.self = "popup" /\ popup.minimized)
            => Premax(popup') = Premax(popup)]_vars

\* The number of times a callback stands on the clock.
Scheduled(callback) ==
    Cardinality({i \in DOMAIN clock : clock[i] = callback})

\* C23: the deferred post-construction step is single-shot and not inline.
\* Construction leaves the facade with no representation and nothing open,
\* its _post_init waiting on the clock; a _post_init runs only as the frame's
\* callback and is then off the clock; the facade's never comes back, the
\* overlay's is scheduled only by the overlay's construction; each of them
\* does run on some later frame.
C23_PostInitDeferredOnce ==
    /\ ~popup.exists /\ ~native.exists /\ ~SomeOpen
    /\ clock = <<"SubWindow._post_init">>
    /\ [][/\ Scheduled("SubWindow._post_init")' <= 1
          /\ Scheduled("SubWindowPopup._post_init")' <= 1
          /\ \A cb \in {"SubWindow._post_init", "SubWindowPopup._post_init"} :
                call'.op = cb =>
                    /\ clock # <<>> /\ Head(clock) = cb
                    /\ Scheduled(cb)' = 0
          /\ Scheduled("SubWindow._post_init") = 0
                => Scheduled("SubWindow._post_init")' = 0
          /\ Scheduled("SubWindowPopup._post_init")' > Scheduled("SubWindowPopup._post_init")
                => ~popup.exists /\ popup'.exists
          /\ (call'.op = "SubWindow._post_init" /\ ~facade.auto_open)
                => <<facade, popup, native, other>>' = <<facade, popup, native, other>>
          /\ (SomeOpen' /\ ~SomeOpen) => Opens]_vars
    /\ <>(Scheduled("SubWindow._post_init") = 0)
    /\ (Scheduled("SubWindowPopup._post_init") > 0)
          ~> (Scheduled("SubWindowPopup._post_init") = 0)

\* The frame after construction has run the facade's _post_init, which has
\* opened the window, and the callback is off the clock.
C23_Witness ==
    /\ call.op = "SubWindow._post_init"
    /\ facade.auto_open
    /\ SomeOpen
    /\ Scheduled("SubWindow._post_init") = 0

====
